---- MODULE Spec2Model ----
(***************************************************************************)
(* randhaj: the image catalog (api/cache.py), the image engine             *)
(* (api/utils/image.py) and the HTTP application (main.py).                *)
(*                                                                         *)
(* Conventions.                                                            *)
(*  - An optional integer (Union[int, None]) is an integer, 0 standing for *)
(*    "absent": every test the code makes on width/height is Python's      *)
(*    truthiness (`not width`), which None and 0 answer alike.             *)
(*  - A string the code inspects character by character (an image id, the  *)
(*    default extension) is a sequence of one-character strings.           *)
(*  - A source filename is the pair os.path.splitext makes of it.          *)
(*  - The store is the one SQLAlchemy Session the Cache shares: `pending`  *)
(*    are objects given to Session.add and not yet flushed, cached_image   *)
(*    and image_metadata are the tables as the session's open transaction  *)
(*    sees them, committed_* are the tables as last committed.             *)
(***************************************************************************)
EXTENDS Integers, Sequences, FiniteSets, TLC

VARIABLES
    phase,              \* where process start-up stands
    todo,               \* os.listdir entries _generate_cache has not looked at yet
    jobs,               \* submitted conversion jobs: filename -> [content, st]
    pending,            \* Session: objects added, not flushed
    cached_image,       \* table cached_image, as the open transaction sees it
    image_metadata,     \* table image_metadata, as the open transaction sees it
    committed_image,    \* table cached_image, as last committed
    committed_metadata, \* table image_metadata, as last committed
    broken,             \* Session: a flush failed and no rollback() was issued
    files,              \* cache directory: the variant files written
    submissions,        \* submissions directory: the files written
    watcher,            \* the inotify thread: "none", "running", "dead"
    cache_start_done,   \* cache_start.done()
    last                \* the last watcher event or HTTP exchange, and its outcome

vars == <<phase, todo, jobs, pending, cached_image, image_metadata,
          committed_image, committed_metadata, broken, files,
          submissions, watcher, cache_start_done, last>>

storeVars == <<pending, cached_image, image_metadata, committed_image,
               committed_metadata, broken>>

-----------------------------------------------------------------------------
(* Bounds of the model *)

MaxPending == 2     \* objects the session holds unflushed at most
MaxWorkers == 2     \* max_initial_cache_generator_workers of the run
MaxVariants == 2    \* size variants generated in the cache directory at most

-----------------------------------------------------------------------------
(* api/constants.py, main.py: program constants *)

ALLOWED_DIMENSIONS == <<2048, 1024, 512, 256, 128, 64, 32, 16>>

AllowedDimensions == {ALLOWED_DIMENSIONS[i] : i \in DOMAIN ALLOWED_DIMENSIONS}

DEFAULT_FORMAT == "jpeg"

DEFAULT_EXTENSION == <<"j", "p", "g">>

ALLOWED_INPUT_FILE_EXTENSIONS == {".jpg", ".jpeg", ".png"}

get_max_width == ALLOWED_DIMENSIONS[1]

MAX_SIZE == get_max_width

API_PAGE_SIZE_LIMIT == 200

VIEW_PAGE_SIZE_LIMIT == 50

ALLOWED_MAX_UPLOAD_FILE_SIZE == 4 * 1024 * 1024

ALLOWED_UPLOAD_CONTENT_TYPES == {"image/png", "image/jpeg"}

\* max_submissions_usage, default "0.9", as the fraction 9/10
MaxUsageNum == 9

MaxUsageDen == 10

-----------------------------------------------------------------------------
(* The inputs: source files and what they hold *)

\* A filename as os.path.splitext splits it.
FileA == [stem |-> "a", ext |-> ".jpg"]

FileB == [stem |-> "b", ext |-> ".PNG"]

FileN == [stem |-> "n", ext |-> ".txt"]

Filenames == {FileA, FileB, FileN}

\* str.lower on the extensions in use
Lower(ext) == CASE ext = ".PNG" -> ".png"
                [] OTHER -> ext

\* cache.py 97-100 and 142-145: splitext(filename.lower())[1] in the allowed list
ExtensionAllowed(f) == Lower(f.ext) \in ALLOWED_INPUT_FILE_EXTENSIONS

\* What a file holds: a decodable image, bytes Image.open cannot identify
\* (UnidentifiedImageError, an OSError, raised by Image.open), or an image
\* whose header parses and whose data does not decode (OSError raised by
\* Image.convert, which loads the data).
Images == {"imgA", "imgB"}

Contents == Images \cup {"unidentified", "truncated"}

NoFile == "nofile"

\* Image ids: base64url text of a SHA-256 digest, cut to two characters.
IdA == <<"k", "g">>

IdB == <<"x", "k">>

IdUnknown == <<"z", "z">>

\* image.py 166-171 get_id: a function of the pixels and the size alone
get_id(c) == IF c = "imgA" THEN IdA ELSE IdB

\* the decoded size of each image
SourceSize(c) == IF c = "imgA" THEN <<2048, 1536>> ELSE <<1536, 2048>>

-----------------------------------------------------------------------------
(* api/utils/image.py: aspect-ratio arithmetic *)

\* Python's int() on a float: truncation toward zero.  b > 0.
TruncDiv(a, b) == IF a >= 0 THEN a \div b ELSE -((-a) \div b)

\* The original sizes calculate_scaled_size is given in the model: those of
\* the literal tests, two small ones, and the sizes of the images, their
\* masters and their square crops
ScaleOriginals ==
    {<<2048, 1536>>, <<1536, 2048>>, <<512, 512>>, <<10, 2>>, <<2, 10>>,
     <<9, 7>>, <<15, 11>>}

ImageSizes ==
    {<<2048, 2730>>, <<4096, 128>>, <<2048, 64>>, <<2048, 93>>,
     <<1536, 1536>>, <<2048, 2048>>, <<64, 64>>}

\* The (x, original width, original height) at which binary64 arithmetic
\* gives int(x / (ow / oh)) one less than the exact quotient x * oh / ow,
\* among the sizes above and the targets x the model uses (1, 5, 9, 11, 777,
\* 999, 384 and the powers of two from 16 to 4096)
FloatShortDiv == {<<9, 9, 7>>, <<999, 9, 7>>, <<2048, 2048, 93>>, <<4096, 2048, 93>>}

\* The same for int(x * (ow / oh)) against x * ow / oh
FloatShortMul == {<<11, 15, 11>>}

\* image.py 62, 68: int(width / (original_width / original_height))
IntDivAspect(x, ow, oh) ==
    IF <<x, ow, oh>> \in FloatShortDiv
    THEN TruncDiv(x * oh, ow) - 1
    ELSE TruncDiv(x * oh, ow)

\* image.py 62, 65: int(height * (original_width / original_height))
IntMulAspect(x, ow, oh) ==
    IF <<x, ow, oh>> \in FloatShortMul
    THEN TruncDiv(x * ow, oh) - 1
    ELSE TruncDiv(x * ow, oh)

\* a scaling that derives the height from the width whenever it has a width
calculate_scaled_size_recomputing(ow, oh, width, height) ==
    IF width = 0 /\ height = 0
    THEN <<ow, oh>>
    ELSE LET w == IF width = 0 THEN IntMulAspect(height, ow, oh) ELSE width
         IN  <<w, IntDivAspect(w, ow, oh)>>

\* image.py 51-70
calculate_scaled_size(ow, oh, width, height) ==
    IF width = 0 /\ height = 0
    THEN <<ow, oh>>
    ELSE LET w == IF width = 0 THEN IntMulAspect(height, ow, oh) ELSE width
             h == IF height = 0 THEN IntDivAspect(w, ow, oh) ELSE height
         IN  <<w, h>>

\* GeneralUtils.clamp (api/utils/general.py is not among the sources)
clamp(v, lo, hi) == IF v < lo THEN lo ELSE IF v > hi THEN hi ELSE v

\* FilenameUtils.get_filename (api/utils/filename.py is not among the
\* sources): deterministic, and different for different (id, width, height,
\* format)
get_filename_name(id, w, h, fmt) == <<id, w, h, fmt>>

\* image.py 98: resize(rgb_image, max_size, max_size), which keeps the width
\* target only (image.py 31-34); the size of the master
MasterSize(c) ==
    calculate_scaled_size(SourceSize(c)[1], SourceSize(c)[2], MAX_SIZE, 0)

\* image.py 100-108: the master file, named by the resized size and FORMAT
MasterFile(c) ==
    [name |-> get_filename_name(get_id(c), MasterSize(c)[1], MasterSize(c)[2],
                                DEFAULT_FORMAT),
     px   |-> MasterSize(c)]

\* a write to a directory: the file of that name is created or replaced
WriteFile(dir, f) == {g \in dir : g.name # f.name} \cup {f}

FileNames(dir) == {g.name : g \in dir}

\* a pipeline that writes no file
WriteNoMaster(dir, c) == dir

\* image.py 107-108: written unless a file of that name exists
WriteMaster(dir, c) ==
    IF MasterFile(c).name \in FileNames(dir) THEN dir ELSE dir \cup {MasterFile(c)}

\* cache.py 84-86, image.py 110-115: the CachedImage with its ImageMetadata
NewEntry(f, c) ==
    [id |-> get_id(c), original_filename |-> f,
     original_width |-> MasterSize(c)[1], original_height |-> MasterSize(c)[2],
     format |-> DEFAULT_FORMAT]

-----------------------------------------------------------------------------
(* The store: models.py and the Session *)

ImageRow(e) == [id |-> e.id, original_filename |-> e.original_filename]

MetadataRow(e) ==
    [id |-> e.id, original_width |-> e.original_width,
     original_height |-> e.original_height, format |-> e.format]

SeqRange(s) == {s[i] : i \in DOMAIN s}

\* models.py 11, 12, 22: the INSERTs of a flush succeed when no primary key
\* of cached_image or image_metadata and no original_filename is repeated
FlushOk(p, img, meta) ==
    /\ \A i, j \in DOMAIN p :
          i # j => /\ p[i].id # p[j].id
                   /\ p[i].original_filename # p[j].original_filename
    /\ \A i \in DOMAIN p :
          /\ \A r \in img : /\ r.id # p[i].id
                            /\ r.original_filename # p[i].original_filename
          /\ \A m \in meta : m.id # p[i].id

\* What a flush (autoflush before a query or a statement, or the flush of
\* commit) leaves: nothing to do on an empty session; the rows inserted; or,
\* on an IntegrityError, the transaction rolled back and the session left
\* waiting for a rollback() the Cache never issues.  A session left so raises
\* on every later use.
Flush(p, img, meta, cimg, cmeta, brk) ==
    IF brk
    THEN [ok |-> FALSE, pending |-> p, img |-> img, meta |-> meta, broken |-> TRUE]
    ELSE IF FlushOk(p, img, meta)
    THEN [ok |-> TRUE, pending |-> <<>>,
          img |-> img \cup {ImageRow(e) : e \in SeqRange(p)},
          meta |-> meta \cup {MetadataRow(e) : e \in SeqRange(p)},
          broken |-> FALSE]
    ELSE [ok |-> FALSE, pending |-> <<>>, img |-> cimg, meta |-> cmeta,
          broken |-> TRUE]

\* the flush of the session as it stands
Flushed ==
    Flush(pending, cached_image, image_metadata, committed_image,
          committed_metadata, broken)

\* every query of the Cache runs through the session: it autoflushes first
QueryStore ==
    /\ pending' = Flushed.pending
    /\ cached_image' = Flushed.img
    /\ image_metadata' = Flushed.meta
    /\ broken' = Flushed.broken
    /\ UNCHANGED <<committed_image, committed_metadata>>

\* cache.py 288-290
commit_and_flush_with(s) ==
    /\ pending' = s.pending
    /\ cached_image' = s.img
    /\ image_metadata' = s.meta
    /\ broken' = s.broken
    /\ IF s.ok
       THEN /\ committed_image' = s.img
            /\ committed_metadata' = s.meta
       ELSE UNCHANGED <<committed_image, committed_metadata>>

\* cache.py 282-285: DELETE FROM cached_image WHERE original_filename IS :f.
\* A bulk DELETE statement: the relationship's cascade (models.py 14-16) is
\* not run for it, and the foreign key (models.py 22) declares no ON DELETE.
DeleteStatement(img, f) == {r \in img : r.original_filename # f}

-----------------------------------------------------------------------------
(* Catalog queries: cache.py 241-294 *)

\* byte order of the characters ids are written in (SQLite compares text
\* with memcmp)
Code(ch) == CASE ch = "." -> 46
              [] ch = "g" -> 103
              [] ch = "j" -> 106
              [] ch = "k" -> 107
              [] ch = "p" -> 112
              [] ch = "x" -> 120
              [] OTHER    -> 122

RECURSIVE IdLess(_, _)
IdLess(a, b) ==
    IF a = <<>> THEN b # <<>>
    ELSE IF b = <<>> THEN FALSE
    ELSE IF Code(Head(a)) # Code(Head(b)) THEN Code(Head(a)) < Code(Head(b))
    ELSE IdLess(Tail(a), Tail(b))

\* ORDER BY cached_image.id
RECURSIVE SortIds(_)
SortIds(S) ==
    IF S = {} THEN <<>>
    ELSE LET m == CHOOSE x \in S : \A y \in S : x = y \/ IdLess(x, y)
         IN  <<m>> \o SortIds(S \ {m})

\* SQLite's OFFSET and LIMIT: a negative OFFSET counts as 0, a negative
\* LIMIT as no limit
OffsetLimit(s, offset, limit) ==
    LET o  == IF offset < 0 THEN 0 ELSE offset
        hi == IF limit < 0 \/ o + limit > Len(s) THEN Len(s) ELSE o + limit
    IN  IF o >= Len(s) THEN <<>> ELSE SubSeq(s, o + 1, hi)

\* cache.py 266-275, on the rows the query sees
get_ids_paged_with_offset(img, offset, page_size) ==
    OffsetLimit(SortIds({r.id : r \in img}), offset, page_size)

\* cache.py 261-264
get_ids_paged(img, page, page_size) ==
    get_ids_paged_with_offset(img, page * page_size, page_size)

\* cache.py 292-294
get_total_image_count(img) == Cardinality(img)

\* cache.py 249-251
id_exists(img, id) == \E r \in img : r.id = id

\* cache.py 245-247: the metadata row, as a set of at most one row
get_metadata(meta, id) == {m \in meta : m.id = id}

-----------------------------------------------------------------------------
(* Start-up: Cache.__init__ (cache.py 32-70) and main.py 101-110 *)

Listings == [Filenames -> Contents \cup {NoFile}]

\* the record of an operation: a watcher event (op, file, kind, id, ids) or
\* an HTTP exchange or Cache call (op the route, path, status, kind, a and b
\* its two integer parameters, list the ids answered; for a call of
\* calculate_scaled_size: size the original size, a and b the targets, out
\* the pair returned; for an image: id the
\* image id asked for, list the id looked up, sq, gen, name the file
\* answered, wrote whether the handler wrote a file; for a submission: c the
\* payload, ctype, accept, over whether the disk is over its ceiling)
Nothing == [op |-> "none", file |-> FileN, kind |-> "none", id |-> <<>>,
            ids |-> {}, path |-> <<>>, status |-> 0, a |-> 0, b |-> 0,
            list |-> <<>>, sq |-> FALSE, gen |-> FALSE, name |-> <<>>,
            wrote |-> FALSE, c |-> "none", ctype |-> "none", accept |-> FALSE,
            over |-> FALSE, size |-> <<>>, out |-> <<>>]

Event(op, file, kind, id, ids) ==
    [Nothing EXCEPT !.op = op, !.file = file, !.kind = kind, !.id = id,
                    !.ids = ids]

Answer(route, path, a, b, status, kind, list) ==
    [Nothing EXCEPT !.op = route, !.path = path, !.status = status,
                    !.kind = kind, !.a = a, !.b = b, !.list = list]

Init ==
    /\ phase = "scan"
    /\ \E l \in Listings :
          todo = {[file |-> f, content |-> l[f]] : f \in {g \in Filenames : l[g] # NoFile}}
    /\ jobs = {}
    /\ pending = <<>>
    /\ cached_image = {}
    /\ image_metadata = {}
    /\ committed_image = {}
    /\ committed_metadata = {}
    /\ broken = FALSE
    /\ files = {}
    /\ submissions = {}
    /\ watcher = "none"
    /\ cache_start_done = FALSE
    /\ last = Nothing

\* cache.py 96-104: a listed file without an allowed extension is skipped
ScanSkip(e) ==
    /\ phase = "scan"
    /\ e \in todo
    /\ ~ExtensionAllowed(e.file)
    /\ todo' = todo \ {e}
    /\ UNCHANGED <<phase, jobs, storeVars, files, submissions, watcher,
                   cache_start_done, last>>

\* cache.py 106: executor.submit(convert_and_save, filename)
ScanSubmit(e) ==
    /\ phase = "scan"
    /\ e \in todo
    /\ ExtensionAllowed(e.file)
    /\ todo' = todo \ {e}
    /\ jobs' = jobs \cup {[file |-> e.file, content |-> e.content, st |-> "queued"]}
    /\ UNCHANGED <<phase, storeVars, files, submissions, watcher,
                   cache_start_done, last>>

\* a pool worker takes a queued job (cache.py 92, max_workers)
JobStart(j) ==
    /\ phase = "scan"
    /\ j \in jobs
    /\ j.st = "queued"
    /\ Cardinality({k \in jobs : k.st \in {"running", "staging"}}) < MaxWorkers
    /\ jobs' = (jobs \ {j}) \cup {[j EXCEPT !.st = "running"]}
    /\ UNCHANGED <<phase, todo, storeVars, files, submissions, watcher,
                   cache_start_done, last>>

\* cache.py 78-87: the worker has opened and converted its file, the master
\* is on disk, and the worker enters session.add on the one session of the
\* Cache; nothing makes it wait for another worker that is there
JobStage(j) ==
    /\ phase = "scan"
    /\ j \in jobs
    /\ j.st = "running"
    /\ j.content \in Images
    /\ jobs' = (jobs \ {j}) \cup {[j EXCEPT !.st = "staging"]}
    /\ files' = WriteMaster(files, j.content)
    /\ UNCHANGED <<phase, todo, storeVars, submissions, watcher,
                   cache_start_done, last>>

\* a job whose OSError is not caught and ends the batch
JobFinishRaising(j) ==
    /\ phase = "scan"
    /\ j \in jobs
    /\ \/ j.st = "staging"
       \/ j.st = "running" /\ j.content \notin Images
    /\ jobs' = (jobs \ {j}) \cup {[j EXCEPT !.st = "done"]}
    /\ IF j.st = "staging"
       THEN /\ pending' = Append(pending, NewEntry(j.file, j.content))
            /\ UNCHANGED phase
       ELSE /\ phase' = "failed"
            /\ UNCHANGED pending
    /\ UNCHANGED <<todo, files, cached_image, image_metadata, committed_image,
                   committed_metadata, broken, submissions, watcher,
                   cache_start_done, last>>

\* cache.py 87-90 convert_and_save returns: the entry staged by session.add,
\* or the OSError of open or convert logged
JobFinish(j) ==
    /\ phase = "scan"
    /\ j \in jobs
    /\ \/ j.st = "staging"
       \/ j.st = "running" /\ j.content \notin Images
    /\ jobs' = (jobs \ {j}) \cup {[j EXCEPT !.st = "done"]}
    /\ IF j.st = "staging"
       THEN pending' = Append(pending, NewEntry(j.file, j.content))
       ELSE UNCHANGED pending
    /\ UNCHANGED <<phase, todo, files, cached_image, image_metadata, committed_image,
                   committed_metadata, broken, submissions, watcher,
                   cache_start_done, last>>

\* a commit that does not wait for the pool
BulkCommitEarly ==
    /\ phase = "scan"
    /\ todo = {}
    /\ commit_and_flush_with(Flushed)
    /\ phase' = IF Flushed.ok THEN "constructed" ELSE "failed"
    /\ jobs' = {}
    /\ UNCHANGED <<todo, files, submissions, watcher, cache_start_done, last>>

\* cache.py 92-108: the pool has run every job; the one commit of the batch.
\* An IntegrityError of its flush leaves Cache(...) and ends the import of
\* main.py.
BulkCommit ==
    /\ phase = "scan"
    /\ todo = {}
    /\ \A j \in jobs : j.st = "done"
    /\ commit_and_flush_with(Flushed)
    /\ phase' = IF Flushed.ok THEN "constructed" ELSE "failed"
    /\ jobs' = {}
    /\ UNCHANGED <<todo, files, submissions, watcher, cache_start_done, last>>

\* cache.py 69-70, 115-119
DispatchInotify ==
    /\ phase = "constructed"
    /\ phase' = "importing"
    /\ watcher' = "running"
    /\ UNCHANGED <<todo, jobs, storeVars, files, submissions, cache_start_done,
                   last>>

\* main.py 107-110: the start task is created and get_first_id is asked for
\* the default card image; the application then serves
FinishImport ==
    /\ phase = "importing"
    /\ QueryStore
    /\ phase' = IF Flushed.ok THEN "serving" ELSE "failed"
    /\ UNCHANGED <<todo, jobs, files, submissions, watcher, cache_start_done,
                   last>>

\* Cache.start (not in cache.py as given): the start task finishes
CacheStartDone ==
    /\ phase = "serving"
    /\ ~cache_start_done
    /\ cache_start_done' = TRUE
    /\ UNCHANGED <<phase, todo, jobs, storeVars, files, submissions, watcher,
                   last>>

-----------------------------------------------------------------------------
(* The filesystem watcher: cache.py 121-182 *)

WatcherRuns == watcher = "running" /\ phase \in {"importing", "serving"}

\* A file that opens and decodes, and that is so flat that the height of its
\* master truncates to 0 (4096 x 1: int(2048 / 4096.0) = 0, image.py 66-68):
\* Image.resize (image.py 45) raises ValueError, which is no OSError.
Degenerate == "degenerate"

WrittenContents == Contents \cup {Degenerate}

\* cache.py 137-173: an IN_CLOSE_WRITE event for file f, which holds c.  An
\* exception other than OSError leaves the try of 158-173 through its finally
\* and the loop through the handler of 181, which catches KeyboardInterrupt
\* alone.
WatchWrite(f, c) ==
    /\ WatcherRuns
    /\ IF ~ExtensionAllowed(f)
       THEN /\ last' = Event("write", f, "ignored", <<>>, {})
            /\ UNCHANGED <<files, pending>>
       ELSE IF c = "unidentified"
       THEN /\ last' = Event("write", f, "open_failed", <<>>, {})
            /\ UNCHANGED <<files, pending>>
       ELSE IF c = "truncated"
       THEN /\ last' = Event("write", f, "convert_failed", <<>>, {})
            /\ UNCHANGED <<files, pending>>
       ELSE IF c = Degenerate
       THEN /\ last' = Event("write", f, "raised", <<>>, {})
            /\ UNCHANGED <<files, pending>>
       ELSE /\ Len(pending) < MaxPending
            /\ files' = WriteMaster(files, c)
            /\ pending' = Append(pending, NewEntry(f, c))
            /\ last' = Event("write", f, "added", get_id(c), {})
    /\ watcher' = IF ExtensionAllowed(f) /\ c = Degenerate
                  THEN "dead" ELSE watcher
    /\ UNCHANGED <<phase, todo, jobs, cached_image, image_metadata,
                   committed_image, committed_metadata, broken,
                   submissions, cache_start_done>>

\* cache.py 132-179: an event that is neither IN_CLOSE_WRITE nor IN_DELETE
\* (IN_IGNORED, IN_Q_OVERFLOW) matches no branch of the loop
WatchOther(f) ==
    /\ WatcherRuns
    /\ last' = Event("other", f, "ignored", <<>>, {})
    /\ UNCHANGED <<phase, todo, jobs, storeVars, files, submissions, watcher,
                   cache_start_done>>

\* cache.py 175-179, 281-286: an IN_DELETE event for file f.  The statement
\* autoflushes; an error of the flush, or a session left broken, raises out
\* of the loop, which catches KeyboardInterrupt alone (cache.py 181).
WatchDelete(f) ==
    /\ WatcherRuns
    /\ IF Flushed.ok
       THEN /\ commit_and_flush_with(
                  [Flushed EXCEPT !.img = DeleteStatement(Flushed.img, f)])
            /\ last' = Event("delete", f, "deleted", <<>>,
                           {r.id : r \in {q \in Flushed.img :
                                            q.original_filename = f}})
            /\ UNCHANGED watcher
       ELSE /\ commit_and_flush_with(Flushed)
            /\ last' = Event("delete", f, "raised", <<>>, {})
            /\ watcher' = "dead"
    /\ UNCHANGED <<phase, todo, jobs, files, submissions, cache_start_done>>

-----------------------------------------------------------------------------
(* main.py 566-586: the start-up gate every request passes first *)

\* a request path, cut where the prefixes the gate tests end
PathApiList == <<"/api/v1", "/img">>

PathGallery == <<"/gallery">>

PathStatic == <<"/static/dist", "/app.css">>

PathFavicon == <<"/favicon.ico">>

PathSubmit == <<"/submit">>

\* str.startswith
StartsWith(path, prefix) ==
    /\ Len(path) >= Len(prefix)
    /\ SubSeq(path, 1, Len(prefix)) = prefix

\* a gate that answers API requests with the page of the UI
intercept_without_api_branch(done, path) ==
    IF ~done
    THEN IF ~(StartsWith(path, <<"/static/dist">>)
              \/ StartsWith(path, <<"/favicon.ico">>))
         THEN "page503"
         ELSE "pass"
    ELSE "pass"

\* main.py 568-586: "json503", "page503", or "pass" (call_next)
intercept_requests_on_startup(done, path) ==
    IF ~done
    THEN IF StartsWith(path, <<"/api/v1">>)
         THEN "json503"
         ELSE IF ~(StartsWith(path, <<"/static/dist">>)
                   \/ StartsWith(path, <<"/favicon.ico">>))
         THEN "page503"
         ELSE "pass"
    ELSE "pass"

Gate(path) == intercept_requests_on_startup(cache_start_done, path)

Gated(route, path, a, b) == Answer(route, path, a, b, 503, Gate(path), <<>>)

\* Python's //, for a >= 0 and b # 0
FloorDiv(a, b) == IF b > 0 THEN a \div b ELSE -((a + (-b) - 1) \div (-b))

\* main.py 303: page_max = image_count // page_size + 1
page_max(image_count, page_size) == FloorDiv(image_count, page_size) + 1

\* main.py 356-364 and the static mount (main.py 86-95): no catalog access
PlainRequest(path) ==
    /\ phase = "serving"
    /\ last' = IF Gate(path) # "pass"
               THEN Gated("plain", path, 0, 0)
               ELSE Answer("plain", path, 0, 0, 200, "file", <<>>)
    /\ UNCHANGED <<phase, todo, jobs, storeVars, files, submissions, watcher,
                   cache_start_done>>

\* main.py 286-332, 380-381: GET /gallery?page&page_size
get_gallery_page_response(page, page_size) ==
    IF page < 1 \/ page_size > VIEW_PAGE_SIZE_LIMIT
    THEN /\ last' = Answer("gallery", PathGallery, page, page_size, 400, "http", <<>>)
         /\ UNCHANGED storeVars
    ELSE /\ QueryStore
         /\ last' =
              IF ~Flushed.ok
              THEN Answer("gallery", PathGallery, page, page_size, 500, "store", <<>>)
              ELSE IF page_size = 0
              THEN Answer("gallery", PathGallery, page, page_size, 500, "zerodiv", <<>>)
              ELSE IF page > page_max(get_total_image_count(Flushed.img), page_size)
              THEN Answer("gallery", PathGallery, page, page_size, 400, "http", <<>>)
              ELSE Answer("gallery", PathGallery, page, page_size, 200, "html",
                          get_ids_paged(Flushed.img, page - 1, page_size))

GalleryRequest(page, page_size) ==
    /\ phase = "serving"
    /\ IF Gate(PathGallery) # "pass"
       THEN /\ last' = Gated("gallery", PathGallery, page, page_size)
            /\ UNCHANGED storeVars
       ELSE get_gallery_page_response(page, page_size)
    /\ UNCHANGED <<phase, todo, jobs, files, submissions, watcher,
                   cache_start_done>>

\* main.py 516-527: GET /api/v1/img?offset&page_size
api_get_image_ids_paged(offset, page_size) ==
    IF page_size > API_PAGE_SIZE_LIMIT
    THEN /\ last' = Answer("list", PathApiList, offset, page_size, 400, "http", <<>>)
         /\ UNCHANGED storeVars
    ELSE /\ QueryStore
         /\ last' =
              IF ~Flushed.ok
              THEN Answer("list", PathApiList, offset, page_size, 500, "store", <<>>)
              ELSE Answer("list", PathApiList, offset, page_size, 200, "json",
                          get_ids_paged_with_offset(Flushed.img, offset, page_size))

ListRequest(offset, page_size) ==
    /\ phase = "serving"
    /\ IF Gate(PathApiList) # "pass"
       THEN /\ last' = Gated("list", PathApiList, offset, page_size)
            /\ UNCHANGED storeVars
       ELSE api_get_image_ids_paged(offset, page_size)
    /\ UNCHANGED <<phase, todo, jobs, files, submissions, watcher,
                   cache_start_done>>

\* the requests the model sends
Pages == {0, 1, 2, 3}

GalleryPageSizes == {0, 1, 51}

Offsets == {-1, 0, 1}

ListPageSizes == {-1, 1, 201}

PlainPaths == {PathStatic, PathFavicon, <<"/favicon.ico", "x">>,
               <<"/api/v1", "/health">>, PathSubmit}

-----------------------------------------------------------------------------
(* Cache.get_filename (cache.py 184-239) and the scaled copy (image.py 119-164) *)

\* the format tag Pillow gives an image opened from a JPEG file (image.py
\* 130; the MIME lookup of image.py 113 needs the same upper-case tag)
PIL_FORMAT == "JPEG"

\* a target size that is not clamped to the master
TargetSizeAsComputed(m, width, height, square) ==
    IF square
    THEN <<width, width>>
    ELSE calculate_scaled_size(m.original_width, m.original_height,
                               width, height)

\* cache.py 196-209: the target size of a request
TargetSize(m, width, height, square) ==
    IF square
    THEN <<width, width>>
    ELSE LET t == calculate_scaled_size(m.original_width, m.original_height,
                                        width, height)
         IN  <<clamp(t[1], 0, m.original_width),
               clamp(t[2], 0, m.original_height)>>

\* image.py 176-185 _crop_center(source, min(size), min(size)): the size left
CropSize(px) == IF px[1] < px[2] THEN <<px[1], px[1]>> ELSE <<px[2], px[2]>>

\* image.py 19-49 resize(image, width, height), defaults kept: the size it
\* asks Pillow for (the height target is dropped, image.py 31-34)
ResizeSize(px, width, height) ==
    IF width = 0 /\ height = 0
    THEN px
    ELSE calculate_scaled_size(px[1], px[2], width, 0)

\* image.py 140-164 write_scaled_copy_to_filesystem on a source of size px:
\* the file written, or no file when Image.resize refuses a size below 1
ScaledCopy(id, px, width, height, crop_square) ==
    LET img == IF crop_square THEN CropSize(px) ELSE px
        out == ResizeSize(img, width, height)
    IN  IF out[1] < 1 \/ out[2] < 1
        THEN {}
        ELSE {[name |-> get_filename_name(id, width, height, PIL_FORMAT),
               px   |-> out]}

\* cache.py 184-239 on the metadata rows meta and the cache directory dir:
\* st "notfound" (ValueError), "error" (an exception of the image engine)
\* or "ok" with the path returned; dir as the call leaves it
get_filename(meta, dir, id, width, height, square, generate) ==
    IF get_metadata(meta, id) = {}
    THEN [st |-> "notfound", name |-> <<>>, wrote |-> FALSE, dir |-> dir]
    ELSE LET m        == CHOOSE x \in get_metadata(meta, id) : TRUE
             t        == TargetSize(m, width, height, square)
             expected == get_filename_name(id, t[1], t[2], m.format)
             source   == get_filename_name(id, m.original_width,
                                           m.original_height, m.format)
         IN  IF expected \in FileNames(dir) \/ ~generate
             THEN [st |-> "ok", name |-> expected, wrote |-> FALSE, dir |-> dir]
             ELSE IF source \notin FileNames(dir)
             THEN [st |-> "error", name |-> <<>>, wrote |-> FALSE, dir |-> dir]
             ELSE LET src  == CHOOSE f \in dir : f.name = source
                      copy == ScaledCopy(id, src.px, t[1], t[2], square)
                  IN  IF copy = {}
                      THEN [st |-> "error", name |-> <<>>, wrote |-> FALSE,
                            dir |-> dir]
                      ELSE LET f == CHOOSE x \in copy : TRUE
                           IN  [st |-> "ok", name |-> f.name, wrote |-> TRUE,
                                dir |-> WriteFile(dir, f)]

\* the size variants in a directory: its files other than the masters
Variants(dir) == {f \in dir : \A c \in Images : f.name # MasterFile(c).name}

\* a call of Cache.get_filename by a page handler (main.py 229, 244-251)
GetFilenameCall(id, width, height, square, generate) ==
    /\ phase = "serving"
    /\ cache_start_done
    /\ QueryStore
    /\ LET g == get_filename(Flushed.meta, files, id, width, height, square, generate)
       IN  /\ files' = IF Flushed.ok THEN g.dir ELSE files
           /\ Cardinality(Variants(files')) <= MaxVariants
           /\ last' = [Nothing EXCEPT
                         !.op = "get_filename", !.id = id, !.a = width,
                         !.b = height, !.sq = square, !.gen = generate,
                         !.status = IF ~Flushed.ok THEN 500
                                    ELSE IF g.st = "ok" THEN 200
                                    ELSE IF g.st = "notfound" THEN 404 ELSE 500,
                         !.kind = IF ~Flushed.ok THEN "store" ELSE g.st,
                         !.name = IF Flushed.ok THEN g.name ELSE <<>>,
                         !.wrote = Flushed.ok /\ g.wrote]
    /\ UNCHANGED <<phase, todo, jobs, submissions, watcher, cache_start_done>>

-----------------------------------------------------------------------------
(* GET /api/v1/img/{image_id}: main.py 128-195, 488-509 *)

PathApiImage == <<"/api/v1", "/img/{image_id}">>

\* str.endswith
EndsWith(text, suffix) ==
    /\ Len(text) >= Len(suffix)
    /\ SubSeq(text, Len(text) - Len(suffix) + 1, Len(text)) = suffix

\* str.rstrip(chars): trailing characters that are in chars are removed
RECURSIVE rstrip(_, _)
rstrip(text, chars) ==
    IF text # <<>> /\ text[Len(text)] \in SeqRange(chars)
    THEN rstrip(SubSeq(text, 1, Len(text) - 1), chars)
    ELSE text

DotExtension == <<".">> \o DEFAULT_EXTENSION

\* main.py 500-501
StripExtension(image_id) ==
    IF EndsWith(image_id, DotExtension)
    THEN rstrip(image_id, DotExtension)
    ELSE image_id

\* main.py 145-173: the (width, height) handed to get_filename, or the 400
\* of a size that is not allowed
ResolveDimensions(m, width, height, square) ==
    LET w1 == IF square /\ width = 0 THEN get_max_width ELSE width
        h1 == IF square THEN w1 ELSE height
        dh == calculate_scaled_size(m.original_width, m.original_height, w1, 0)[2]
        byWidth == h1 = 0 /\ w1 # 0 /\ w1 \notin AllowedDimensions
        h2 == IF byWidth THEN dh ELSE h1
        dw == calculate_scaled_size(m.original_width, m.original_height, 0, h2)[1]
        byHeight == w1 = 0 /\ h2 # 0 /\ h2 \notin AllowedDimensions
        w2 == IF byHeight THEN dw ELSE w1
    IN  IF byWidth /\ dh \notin AllowedDimensions
        THEN [ok |-> FALSE, width |-> w1, height |-> dh]
        ELSE IF byHeight /\ dw \notin AllowedDimensions
        THEN [ok |-> FALSE, width |-> dw, height |-> h2]
        ELSE [ok |-> TRUE, width |-> w2, height |-> h2]

\* main.py 128-195 on the tables img and meta and the cache directory dir
get_file_response(img, meta, dir, image_id, width, height, square) ==
    IF ~id_exists(img, image_id)
    THEN [status |-> 404, kind |-> "http", name |-> <<>>, wrote |-> FALSE, dir |-> dir]
    ELSE LET m == CHOOSE x \in get_metadata(meta, image_id) : TRUE
             d == ResolveDimensions(m, width, height, square)
             r == get_filename(meta, dir, image_id, d.width, d.height, square, TRUE)
         IN  IF ~d.ok
             THEN [status |-> 400, kind |-> "http", name |-> <<>>,
                   wrote |-> FALSE, dir |-> dir]
             ELSE IF r.st # "ok"
             THEN [status |-> 500, kind |-> r.st, name |-> <<>>,
                   wrote |-> FALSE, dir |-> dir]
             ELSE [status |-> 200, kind |-> "file", name |-> r.name,
                   wrote |-> r.wrote, dir |-> r.dir]

\* main.py 488-509
ImageRequest(image_id, width, height, square) ==
    /\ phase = "serving"
    /\ IF Gate(PathApiImage) # "pass"
       THEN /\ last' = [Gated("image", PathApiImage, width, height) EXCEPT
                          !.id = image_id, !.sq = square]
            /\ UNCHANGED <<storeVars, files>>
       ELSE /\ QueryStore
            /\ LET r == get_file_response(Flushed.img, Flushed.meta, files,
                                          StripExtension(image_id), width,
                                          height, square)
               IN  /\ files' = IF Flushed.ok THEN r.dir ELSE files
                   /\ Cardinality(Variants(files')) <= MaxVariants
                   /\ last' = [Nothing EXCEPT
                                 !.op = "image", !.path = PathApiImage,
                                 !.id = image_id,
                                 !.list = StripExtension(image_id),
                                 !.a = width, !.b = height, !.sq = square,
                                 !.gen = TRUE,
                                 !.status = IF Flushed.ok THEN r.status ELSE 500,
                                 !.kind = IF Flushed.ok THEN r.kind ELSE "store",
                                 !.name = IF Flushed.ok THEN r.name ELSE <<>>,
                                 !.wrote = Flushed.ok /\ r.wrote]
    /\ UNCHANGED <<phase, todo, jobs, submissions, watcher, cache_start_done>>

\* the image requests the model sends
ImageIdTexts == {IdA \o DotExtension, IdB, IdB \o DotExtension, IdUnknown}

Widths == {0, 512, 999}

Heights == {0, 777}

-----------------------------------------------------------------------------
(* POST /submit: main.py 398-458 *)

\* the name of a submission: the name of the unified file behind the
\* prefix "submission" (main.py 436; the naming itself is of the
\* specification, 4.8 POST /submit)
get_submission_name(id, width, height, fmt) ==
    <<"submission">> \o get_filename_name(id, width, height, fmt)

\* image.py 72-117 with output_path the submissions directory
WriteSubmission(dir, c) ==
    WriteFile(dir, [name |-> get_submission_name(get_id(c), MasterSize(c)[1],
                                                 MasterSize(c)[2], DEFAULT_FORMAT),
                    px   |-> MasterSize(c)])

\* main.py 421-427: used / total > max_submissions_usage
OverCeiling(used, total) == used * MaxUsageDen > total * MaxUsageNum

\* main.py 403-443 on the submissions directory dir: the status answered and
\* the directory as the handler leaves it.  Image.open refuses what it can
\* not identify (UnidentifiedImageError, caught at 439); a file it
\* identifies and can not read to its end fails with OSError when the
\* pipeline loads its pixels (image.py 98), which no handler catches.
page_post_submit(dir, accept_conditions, size, content_type, used, total, c) ==
    IF ~accept_conditions
    THEN [status |-> 400, kind |-> "conditions", dir |-> dir]
    ELSE IF size > ALLOWED_MAX_UPLOAD_FILE_SIZE
    THEN [status |-> 400, kind |-> "size", dir |-> dir]
    ELSE IF content_type \notin ALLOWED_UPLOAD_CONTENT_TYPES
    THEN [status |-> 400, kind |-> "content_type", dir |-> dir]
    ELSE IF OverCeiling(used, total)
    THEN [status |-> 500, kind |-> "disk", dir |-> dir]
    ELSE IF c = "unidentified"
    THEN [status |-> 400, kind |-> "bad_image", dir |-> dir]
    ELSE IF c \notin Images
    THEN [status |-> 500, kind |-> "error", dir |-> dir]
    ELSE [status |-> 200, kind |-> "html", dir |-> WriteSubmission(dir, c)]

SubmitRequest(accept_conditions, size, content_type, used, total, c) ==
    /\ phase = "serving"
    /\ LET r == page_post_submit(submissions, accept_conditions, size,
                                 content_type, used, total, c)
           q == [Nothing EXCEPT !.op = "submit", !.path = PathSubmit,
                                !.a = size, !.c = c, !.ctype = content_type,
                                !.accept = accept_conditions,
                                !.over = OverCeiling(used, total)]
       IN  IF Gate(PathSubmit) # "pass"
           THEN /\ last' = [q EXCEPT !.status = 503, !.kind = Gate(PathSubmit)]
                /\ UNCHANGED submissions
           ELSE /\ last' = [q EXCEPT !.status = r.status, !.kind = r.kind,
                                     !.wrote = r.dir # submissions]
                /\ submissions' = r.dir
    /\ UNCHANGED <<phase, todo, jobs, storeVars, files, watcher,
                   cache_start_done>>

\* the submissions the model sends
UploadSizes == {1024, ALLOWED_MAX_UPLOAD_FILE_SIZE, ALLOWED_MAX_UPLOAD_FILE_SIZE + 1}

ContentTypes == ALLOWED_UPLOAD_CONTENT_TYPES \cup {"text/plain"}

DiskUsages == {<<9, 10>>, <<91, 100>>}

-----------------------------------------------------------------------------
(* The catalog's life: start-up, the watcher, the listing routes *)

Startup ==
    \/ \E e \in todo : ScanSkip(e) \/ ScanSubmit(e)
    \/ \E j \in jobs : JobStart(j) \/ JobStage(j) \/ JobFinish(j)
    \/ BulkCommit
    \/ DispatchInotify
    \/ FinishImport
    \/ CacheStartDone

Watcher ==
    \/ \E f \in Filenames, c \in WrittenContents : WatchWrite(f, c)
    \/ \E f \in Filenames : WatchDelete(f)
    \/ \E f \in Filenames : WatchOther(f)

Next ==
    \/ Startup
    \/ Watcher
    \/ \E p \in PlainPaths : PlainRequest(p)
    \/ \E page \in Pages, ps \in GalleryPageSizes : GalleryRequest(page, ps)
    \/ \E o \in Offsets, ps \in ListPageSizes : ListRequest(o, ps)

Spec == Init /\ [][Next]_vars

(* The image files: start-up, then image requests and get_filename calls *)

NextFiles ==
    \/ Startup
    \/ \E t \in ImageIdTexts, w \in Widths, h \in Heights, sq \in BOOLEAN :
          ImageRequest(t, w, h, sq)
    \/ \E id \in {IdA, IdUnknown}, w \in {0, 1, 512}, sq \in BOOLEAN, g \in BOOLEAN :
          GetFilenameCall(id, w, 0, sq, g)

SpecFiles == Init /\ [][NextFiles]_vars

(* The submissions: start-up, then uploads *)

NextSubmit ==
    \/ Startup
    \/ \E acc \in BOOLEAN, size \in UploadSizes, ct \in ContentTypes,
          du \in DiskUsages, c \in Contents :
          SubmitRequest(acc, size, ct, du[1], du[2], c)

SpecSubmit == Init /\ [][NextSubmit]_vars

(* The catalog and its files: start-up, the watcher, get_filename calls *)

NextCatalog ==
    \/ Startup
    \/ Watcher
    \/ \E id \in {IdA, IdB}, g \in BOOLEAN :
          GetFilenameCall(id, 512, 0, FALSE, g)

SpecCatalog == Init /\ [][NextCatalog]_vars

(* The aspect arithmetic alone: calculate_scaled_size on given arguments *)

\* the application at rest with an empty catalog
AtRest ==
    /\ phase = "serving"
    /\ todo = {}
    /\ jobs = {}
    /\ pending = <<>>
    /\ cached_image = {}
    /\ image_metadata = {}
    /\ committed_image = {}
    /\ committed_metadata = {}
    /\ broken = FALSE
    /\ files = {}
    /\ submissions = {}
    /\ watcher = "running"
    /\ cache_start_done = TRUE

\* the targets given to calculate_scaled_size, 0 for an absent one
ScaleTargets == {0, 1, 5, 9, 11, 256, 384, 512}

InitScale ==
    /\ AtRest
    /\ \E o \in ScaleOriginals, w \in ScaleTargets, h \in ScaleTargets :
          last = [Nothing EXCEPT !.op = "arguments", !.size = o, !.a = w, !.b = h]

\* image.py 51-70 applied to the arguments
ScaleCall ==
    /\ last.op = "arguments"
    /\ last' = [last EXCEPT
                  !.op = "calculate_scaled_size",
                  !.out = calculate_scaled_size(last.size[1], last.size[2],
                                                last.a, last.b)]
    /\ UNCHANGED <<phase, todo, jobs, storeVars, files, submissions, watcher,
                   cache_start_done>>

NextScale == ScaleCall

SpecScale == InitScale /\ [][NextScale]_vars

(* Images of any size: a catalog of one image, then image requests and     *)
(* get_filename calls                                                      *)

\* the sizes of the source image
SourceSizes == {<<2048, 1536>>, <<1536, 2048>>, <<4096, 128>>}

\* image.py 98: the size of the master of a source of size src
MasterOf(src) == calculate_scaled_size(src[1], src[2], MAX_SIZE, 0)

\* the catalog after the bulk generation of a directory that holds one image
\* of size src, with id IdB, in file FileA
CatalogOf(src) ==
    LET entry == [id |-> IdB, original_filename |-> FileA,
                  original_width |-> MasterOf(src)[1],
                  original_height |-> MasterOf(src)[2],
                  format |-> DEFAULT_FORMAT]
    IN  /\ phase = "serving"
        /\ todo = {}
        /\ jobs = {}
        /\ pending = <<>>
        /\ cached_image = {ImageRow(entry)}
        /\ image_metadata = {MetadataRow(entry)}
        /\ committed_image = {ImageRow(entry)}
        /\ committed_metadata = {MetadataRow(entry)}
        /\ broken = FALSE
        /\ files = {[name |-> get_filename_name(IdB, MasterOf(src)[1],
                                                MasterOf(src)[2], DEFAULT_FORMAT),
                     px   |-> MasterOf(src)]}
        /\ submissions = {}
        /\ watcher = "running"
        /\ cache_start_done = TRUE

InitSizes ==
    /\ \E src \in SourceSizes : CatalogOf(src)
    /\ last = Nothing

NextSizes ==
    \/ \E t \in {IdB, IdUnknown}, w \in AllowedDimensions \cup {0} :
          ImageRequest(t, w, 0, FALSE)
    \/ \E id \in {IdB, IdUnknown}, w \in {0, 16, 4096}, h \in {0, 1, 4096},
          g \in BOOLEAN :
          GetFilenameCall(id, w, h, FALSE, g)

SpecSizes == InitSizes /\ [][NextSizes]_vars

\* the targets of the size variants asked for: none, one of the allowed
\* dimensions, and a height that is no multiple of the aspect ratios
VariantWidths == {0, 512}

VariantHeights == {0, 512, 777}

\* Cache.get_filename (cache.py 184-239) called with a width only, a height
\* only, both, neither, or square, on the catalog of one image
NextVariants ==
    \E w \in VariantWidths, h \in VariantHeights, sq \in BOOLEAN,
       g \in BOOLEAN :
        GetFilenameCall(IdB, w, h, sq, g)

SpecVariants == InitSizes /\ [][NextVariants]_vars

-----------------------------------------------------------------------------
(* Properties *)

\* the request of `last` reached its route handler
Handled == last.kind \notin {"json503", "page503"}

\* the elements of a sequence s at the positions lo <= k < hi, counted from
\* 0, in order
Slice(s, lo, hi) ==
    LET top == IF hi < Len(s) THEN hi ELSE Len(s)
        bot == IF lo < 0 THEN 0 ELSE lo
    IN  IF top <= bot THEN <<>> ELSE [i \in 1..(top - bot) |-> s[bot + i]]

AscendingIds == SortIds({r.id : r \in cached_image})

\* C1: after the watcher has handled the delete event of a source file whose
\* entry has id X, id_exists(X) is false and get_metadata(X) is absent; and
\* no metadata row is ever without its owning catalog row.
C1_DeleteCascade ==
    /\ (last.op = "delete" /\ last.kind = "deleted") =>
          \A x \in last.ids : /\ ~id_exists(cached_image, x)
                              /\ get_metadata(image_metadata, x) = {}
    /\ \A m \in image_metadata : \E r \in cached_image : r.id = m.id

\* C2: when the watcher has handled a write-completion event whose file
\* converted, the new entry and its metadata are committed to the store
\* before the next event is handled.
C2_WatcherInsertCommitted ==
    (last.op = "write" /\ last.kind = "added") =>
        /\ \E r \in committed_image :
              r.id = last.id /\ r.original_filename = last.file
        /\ \E m \in committed_metadata : m.id = last.id

\* two source files of different names with the same content hash are among
\* the entries p waiting to be written and the rows img
SameContentTwice(p, img) ==
    \E i \in 1..Len(p) :
        \/ \E j \in 1..Len(p) : /\ i # j
                                /\ p[i].id = p[j].id
                                /\ p[i].original_filename # p[j].original_filename
        \/ \E r \in img : /\ r.id = p[i].id
                          /\ r.original_filename # p[i].original_filename

\* C3: the catalog never holds two entries of one id, and writing two source
\* files of identical content to the store (the bulk commit, or the flush of
\* the watcher's entries) succeeds and leaves one entry of that id.
C3_DedupeCollapses ==
    /\ [](\A r1, r2 \in cached_image : r1.id = r2.id => r1 = r2)
    /\ [][(SameContentTwice(pending, cached_image) /\ ~broken /\ pending' = <<>>)
            => /\ phase' # "failed"
               /\ ~broken'
               /\ \A i \in 1..Len(pending) :
                     Cardinality({r \in cached_image' : r.id = pending[i].id}) = 1]_vars

AllowedAxis(m, width, height) ==
    \/ width # 0 /\ width \in AllowedDimensions
    \/ height # 0 /\ height \in AllowedDimensions
    \/ width # 0 /\ IntDivAspect(width, m.original_width, m.original_height)
                       \in AllowedDimensions
    \/ height # 0 /\ IntMulAspect(height, m.original_width, m.original_height)
                       \in AllowedDimensions

\* C5: for an existing image, a request that names a size is served a file
\* only if the axis it pins, or the other axis derived from the aspect
\* ratio, is an allowed dimension; any other size is answered 400.
C5_OnlyAllowedSizes ==
    (last.op = "image" /\ Handled /\ id_exists(cached_image, last.list)) =>
        LET m == CHOOSE x \in get_metadata(image_metadata, last.list) : TRUE
            w == IF last.sq /\ last.a = 0 THEN get_max_width ELSE last.a
            h == IF last.sq THEN 0 ELSE last.b
        IN  ((w # 0 \/ h # 0) /\ ~AllowedAxis(m, w, h)) =>
                last.status = 400 /\ ~last.wrote

\* C6: the image route looks up 'X.jpg' as exactly X, so that the request of
\* a catalog id with the suffix is not answered 404, and looks up an id
\* without the suffix unchanged.
C6_StripsOnlySuffix ==
    (last.op = "image" /\ Handled) =>
        /\ last.list = IF EndsWith(last.id, DotExtension)
                       THEN SubSeq(last.id, 1, Len(last.id) - Len(DotExtension))
                       ELSE last.id
        /\ \A r \in cached_image :
              last.id = r.id \o DotExtension => last.status # 404

\* the path get_filename is to answer for the call recorded in q
DeterministicPath(q) ==
    LET m == CHOOSE x \in get_metadata(image_metadata, q.id) : TRUE
        t == TargetSize(m, q.a, q.b, q.sq)
    IN  get_filename_name(q.id, t[1], t[2], m.format)

\* C7: for a known id, a get_filename call with generation enabled returns
\* the deterministic path of (id, W, H, format), where the file then is; a
\* following call with generation suppressed returns the same path and
\* writes nothing; a further call with generation enabled finds the file and
\* does not write it again.
C7_RoundTrip ==
    /\ []((last.op = "get_filename" /\ last.gen
             /\ get_metadata(image_metadata, last.id) # {}) =>
            /\ last.status = 200
            /\ last.name = DeterministicPath(last)
            /\ last.name \in FileNames(files))
    /\ [][(/\ last.op = "get_filename" /\ last.gen /\ last.status = 200
           /\ last'.op = "get_filename" /\ last' # last
           /\ last'.id = last.id /\ last'.a = last.a /\ last'.b = last.b
           /\ last'.sq = last.sq)
            => /\ last'.name = last.name
               /\ ~last'.wrote
               /\ files' = files]_vars

\* C8: the gallery route answers 400 to page < 1, to pageSize > 50 and to
\* page > pageMax = totalCount // pageSize + 1, and renders for any other
\* request the slice [(page-1)*pageSize, page*pageSize) of the ascending
\* ids; with 120 entries and pageSize 50, page 4 is refused and page 3 holds
\* the last 20 ids.
C8_GalleryBounds ==
    /\ (last.op = "gallery" /\ Handled) =>
          LET page  == last.a
              size  == last.b
              total == get_total_image_count(cached_image)
          IN  /\ (page < 1 \/ size > 50) => last.status = 400
              /\ (size # 0 /\ page > FloorDiv(total, size) + 1) => last.status = 400
              /\ last.status = 200 =>
                    last.list = Slice(AscendingIds, (page - 1) * size, page * size)
    /\ 4 > page_max(120, 50)
    /\ 3 <= page_max(120, 50)
    /\ OffsetLimit([i \in 1..120 |-> i], (3 - 1) * 50, 50) = [i \in 1..20 |-> 100 + i]

\* C9: for every catalog and every (offset, pageSize), the ids answered are
\* the slice [offset, offset+pageSize) of the ascending ids, never more than
\* pageSize of them and none when offset >= totalCount; get_ids_paged(page,
\* pageSize) answers as get_ids_paged_with_offset(page*pageSize, pageSize);
\* the list route answers 400 to pageSize > 200.
C9_PagedSlice ==
    /\ \A o \in Offsets, size \in ListPageSizes :
          LET ids == get_ids_paged_with_offset(cached_image, o, size)
          IN  /\ Len(ids) <= (IF size < 0 THEN 0 ELSE size)
              /\ ids = Slice(AscendingIds, o, o + size)
              /\ o >= get_total_image_count(cached_image) => ids = <<>>
              /\ get_ids_paged(cached_image, o, size)
                   = get_ids_paged_with_offset(cached_image, o * size, size)
    /\ (last.op = "list" /\ Handled /\ last.b > 200) => last.status = 400

\* C10: a submission is answered 400 when the conditions are not accepted,
\* the size is above 4194304 bytes, the content type is neither image/png
\* nor image/jpeg, or the payload can not be decoded, and 500 when the disk
\* is over its ceiling; a refused submission writes nothing.
C10_SubmitRejections ==
    (last.op = "submit" /\ Handled) =>
        /\ (~last.accept \/ last.a > 4194304
              \/ last.ctype \notin {"image/png", "image/jpeg"}) =>
                last.status = 400
        /\ (last.accept /\ last.a <= 4194304
              /\ last.ctype \in {"image/png", "image/jpeg"} /\ last.over) =>
                last.status = 500
        /\ (last.c \notin Images /\ ~last.over) => last.status = 400
        /\ last.status # 200 => ~last.wrote

\* src/tests/image_utils_test.py 4-10: original width and height, new width
\* and height
testdata ==
    {<<2048, 1536, 512, 384>>, <<1536, 2048, 384, 512>>, <<512, 512, 256, 256>>,
     <<10, 2, 5, 1>>, <<2, 10, 1, 5>>}

\* C11: with one target given, calculate_scaled_size keeps it and derives the
\* other by truncation of the exact quotient: (W, floor(W*oh/ow)) for a
\* width, (floor(H*ow/oh), H) for a height; the five literal tuples give the
\* literal pairs in both forms.
C11_DerivesByTruncation ==
    /\ last.op = "calculate_scaled_size" =>
          LET ow == last.size[1]
              oh == last.size[2]
          IN  /\ (last.a # 0 /\ last.b = 0) =>
                    last.out = <<last.a, (last.a * oh) \div ow>>
              /\ (last.a = 0 /\ last.b # 0) =>
                    last.out = <<(last.b * ow) \div oh, last.b>>
    /\ \A t \in testdata :
          /\ calculate_scaled_size(t[1], t[2], t[3], 0) = <<t[3], t[4]>>
          /\ calculate_scaled_size(t[1], t[2], 0, t[4]) = <<t[3], t[4]>>

\* C12: with both targets given, calculate_scaled_size returns them as
\* given, whatever the original size, as it does for the five literal
\* tuples; with none given it returns the original size.
C12_PassThrough ==
    /\ last.op = "calculate_scaled_size" =>
          /\ (last.a # 0 /\ last.b # 0) => last.out = <<last.a, last.b>>
          /\ (last.a = 0 /\ last.b = 0) => last.out = last.size
    /\ \A t \in testdata :
          /\ calculate_scaled_size(t[1], t[2], t[3], t[4]) = <<t[3], t[4]>>
          /\ calculate_scaled_size(t[1], t[2], 0, 0) = <<t[1], t[2]>>

\* both targets were given, off the aspect ratio of the original
C12_Witness ==
    /\ last.op = "calculate_scaled_size"
    /\ last.size = <<2048, 1536>>
    /\ last.a = 5
    /\ last.b = 11
    /\ last.out = <<5, 11>>

\* C13: a request of an existing image with one of the 8 allowed widths and
\* no height is never answered 400 and is answered a variant file whose
\* width and height are both at least 1, whatever the size of the master.
C13_AllowedWidthServed ==
    (/\ last.op = "image" /\ Handled
     /\ id_exists(cached_image, last.list)
     /\ last.a \in {2048, 1024, 512, 256, 128, 64, 32, 16}
     /\ last.b = 0 /\ ~last.sq) =>
        /\ last.status = 200
        /\ \E f \in files : f.name = last.name /\ f.px[1] >= 1 /\ f.px[2] >= 1

\* C17: a non-square get_filename call on a known id answers the name of the
\* size calculate_scaled_size gives against the master, each dimension
\* clamped into [0, master dimension], and no file in the cache directory
\* exceeds its master in width or in height; on an unknown id it fails with
\* NotFound and writes nothing.
C17_ClampedToMaster ==
    /\ (last.op = "get_filename" /\ ~last.sq /\ last.kind # "store") =>
          IF get_metadata(image_metadata, last.id) = {}
          THEN last.kind = "notfound" /\ ~last.wrote /\ last.name = <<>>
          ELSE LET m == CHOOSE x \in get_metadata(image_metadata, last.id) : TRUE
                   t == calculate_scaled_size(m.original_width, m.original_height,
                                              last.a, last.b)
                   w == IF t[1] > m.original_width THEN m.original_width ELSE t[1]
                   h == IF t[2] > m.original_height THEN m.original_height ELSE t[2]
               IN  last.status = 200 =>
                     /\ last.name[2] = (IF w < 0 THEN 0 ELSE w)
                     /\ last.name[3] = (IF h < 0 THEN 0 ELSE h)
                     /\ last.name[2] <= m.original_width
                     /\ last.name[3] <= m.original_height
    /\ \A f \in files : \A m \in image_metadata :
          f.name[1] = m.id =>
              f.px[1] <= m.original_width /\ f.px[2] <= m.original_height

\* a call asked for twice the width of the master and one row, and wrote a
\* variant named by the width of the master
C17_Witness ==
    /\ last.op = "get_filename"
    /\ last.id = IdB
    /\ last.a = 4096
    /\ last.b = 1
    /\ last.status = 200
    /\ last.wrote
    /\ last.name[2] = 2048
    /\ last.name \in FileNames(files)

\* the jobs of the batch that converted their file
Converted(js) == {j \in js : j.content \in Images}

CatalogIds ==
    {r.id : r \in cached_image \cup committed_image}
        \cup {pending[i].id : i \in 1..Len(pending)}

MetadataOf(id) ==
    {m \in image_metadata \cup committed_metadata : m.id = id}
        \cup {MetadataRow(pending[i]) : i \in {k \in 1..Len(pending) : pending[k].id = id}}

\* C15: for every catalog entry the cache directory holds a master file
\* named by the id and by the original width, original height and format of
\* its metadata, after any bulk generation, watcher events and get_filename
\* calls; and no file of the cache directory is ever removed.
C15_MasterOnDisk ==
    /\ [](\A id \in CatalogIds :
            /\ MetadataOf(id) # {}
            /\ \A m \in MetadataOf(id) :
                  <<id, m.original_width, m.original_height, m.format>>
                      \in FileNames(files))
    /\ [][FileNames(files) \subseteq FileNames(files')]_vars

\* a variant was generated while the catalog holds an entry the watcher
\* added and another was deleted by the watcher
C15_Witness ==
    /\ last.op = "get_filename"
    /\ last.wrote
    /\ cached_image # {}
    /\ cached_image # committed_image
    /\ Cardinality(image_metadata) > Cardinality(cached_image)

\* a source filename that has a catalog row in img, or an entry staged
\* before, is among the entries p waiting to be written
FilenameTwice(p, img) ==
    \E i \in 1..Len(p) :
        \/ \E r \in img : r.original_filename = p[i].original_filename
        \/ \E j \in 1..Len(p) :
              i # j /\ p[i].original_filename = p[j].original_filename

\* C16: no two catalog entries ever share an original filename, and after a
\* watcher write event for a filename that already has an entry the store
\* stays usable: the write of the staged entries to the store does not fail,
\* and later queries and events are served.
C16_UniqueFilenameUsable ==
    /\ [](\A r1, r2 \in cached_image :
            r1.original_filename = r2.original_filename => r1 = r2)
    /\ [][(FilenameTwice(pending, cached_image) /\ ~broken /\ pending' = <<>>)
            => /\ ~broken'
               /\ phase' # "failed"
               /\ watcher' # "dead"
               /\ last'.kind \notin {"store", "raised"}]_vars

\* C18: while the bulk generation runs nothing is committed or visible in
\* the store and the watcher is not started; the store is committed to only
\* when every listed file was handled and every submitted job has finished,
\* in the one step that ends the generation, which never runs again; the
\* watcher is started only after it.
C18_OneCommitAfterJobs ==
    /\ [](phase = "scan" =>
            /\ committed_image = {} /\ committed_metadata = {}
            /\ cached_image = {} /\ image_metadata = {}
            /\ watcher = "none")
    /\ [][(phase = "scan" /\ <<committed_image, committed_metadata, cached_image,
                              image_metadata, phase>>'
                            # <<committed_image, committed_metadata, cached_image,
                                image_metadata, phase>>) =>
            /\ todo = {}
            /\ \A j \in jobs : j.st = "done"
            /\ phase' \in {"constructed", "failed"}
            /\ phase' = "constructed" =>
                  /\ pending' = <<>>
                  /\ committed_image' = {ImageRow(pending[i]) : i \in 1..Len(pending)}]_vars
    /\ [][phase # "scan" => phase' # "scan"]_vars
    /\ [][watcher' # watcher /\ watcher = "none" => phase = "constructed"]_vars

\* the batch of two files was committed at once, before the watcher started
C18_Witness ==
    /\ phase = "constructed"
    /\ watcher = "none"
    /\ Cardinality(committed_image) = 2
    /\ pending = <<>>

\* C19: writers of the store never interleave partial transactions: no two
\* execution contexts are staging on the shared session at the same time
\* (here: no two workers of the bulk conversion are inside session.add
\* together), and no commit is issued while another context is still
\* staging.
C19_SerializedWriters ==
    /\ [](Cardinality({j \in jobs : j.st = "staging"}) <= 1)
    /\ [][committed_image' # committed_image =>
            \A j \in jobs : j.st # "staging"]_vars

\* C20: the watcher loop survives every failure of one event: a
\* write-completion event whose file has a disallowed extension, cannot be
\* opened or fails in conversion is skipped with the catalog unchanged and
\* the loop still running, an event of another kind leaves the catalog
\* unchanged, and nothing but an interrupt, which no event is, stops the
\* loop.
C20_WatcherSurvives ==
    /\ [][(last' # last /\ last'.op = "write" /\ last'.kind # "added") =>
            /\ UNCHANGED <<storeVars, files>>
            /\ watcher' = "running"]_vars
    /\ [][(last' # last /\ last'.op = "other") =>
            UNCHANGED <<storeVars, files, watcher>>]_vars
    /\ [][watcher = "running" => watcher' = "running"]_vars

\* C21: every file in the cache directory holds an image of the width and
\* height its name says: whatever get_filename was asked for (a width, a
\* height, both, or a square), the size resize produced from the master is
\* the target size the path of the variant was computed from.
C21_VariantHoldsNamedSize ==
    /\ \A f \in files : f.px = <<f.name[2], f.name[3]>>
    /\ (last.op = "get_filename" /\ last.wrote) =>
          \E f \in files : f.name = last.name /\ f.px = <<last.name[2], last.name[3]>>

====
